---- MODULE Spec2Model ----
(***************************************************************************)
(* Model of the Kazi repository state engine (src/kazi/main.py): the three *)
(* persisted documents staging.json, commits.json and branches.json and    *)
(* the operations of class Kazi that load, mutate and store them.          *)
(***************************************************************************)
EXTENDS Integers, Sequences, FiniteSets, TLC

(* ---------------------------------------------------------------------- *)
(* Bounds and input sets                                                   *)
(* ---------------------------------------------------------------------- *)

\* commit is not invoked any more once the log holds MaxCommits records
MaxCommits == 3

\* paths that exist on the filesystem, and one that does not
ExistingFiles == {"x.txt", "y.txt"}
Paths == ExistingFiles \cup {"missing.txt"}

\* the paths handed to add where the order of staged paths plays no part
OnePath == {"x.txt", "missing.txt"}

\* branch names handed to create-branch / checkout / merge / diff
BranchNames == {"main", "feature"}

\* commit messages
Messages == {"first"}

\* values datetime.now().isoformat() may yield
Timestamps == {"t0"}

\* answers the operator may type at the merge prompt: 's', 't', anything else
Resolutions == {"s", "t", "k"}

\* the processes that may run a commit step by step
Procs == {1, 2}

\* the messages of commits run side by side, one for each record
RaceMessages == {"first", "second"}

(* ---------------------------------------------------------------------- *)
(* State                                                                   *)
(* ---------------------------------------------------------------------- *)

VARIABLES
    exists,     \* os.path.exists(self.kazi_dir)
    staging,    \* staging.json : sequence of paths
    commits,    \* commits.json : sequence of commit records
    branches,   \* branches.json: name -> [commits, active]
    last,       \* the last call: operation, arguments, printed result
    procs       \* the commit invocations under way: position and memory

vars == <<exists, staging, commits, branches, last, procs>>

\* the record kept in `last`
Call(op, arg, out, ret) == [op |-> op, arg |-> arg, out |-> out, ret |-> ret]

(* ---------------------------------------------------------------------- *)
(* List helpers (Python list semantics)                                    *)
(* ---------------------------------------------------------------------- *)

\* x in lst
In(x, lst) == \E i \in 1..Len(lst) : lst[i] = x

\* set(lst)
ToSet(lst) == {lst[i] : i \in 1..Len(lst)}

\* lst.remove(x): drops the first occurrence of x
RECURSIVE ListRemove(_, _)
ListRemove(lst, x) ==
    IF lst = <<>> THEN <<>>
    ELSE IF Head(lst) = x THEN Tail(lst)
    ELSE <<Head(lst)>> \o ListRemove(Tail(lst), x)

(* ---------------------------------------------------------------------- *)
(* init                                                                    *)
(* ---------------------------------------------------------------------- *)

\* the branch table written by init
InitialBranches == [n \in {"main"} |-> [commits |-> <<>>, active |-> TRUE]]

kazi_init ==
    IF exists
    THEN /\ last' = Call("init", <<>>, "already initialized", <<>>)
         /\ UNCHANGED <<exists, staging, commits, branches>>
    ELSE /\ exists' = TRUE
         /\ staging' = <<>>
         /\ commits' = <<>>
         /\ branches' = InitialBranches
         /\ last' = Call("init", <<>>, "initialized", <<>>)

\* every operation but init starts with this test
NotARepository(op, arg) ==
    /\ ~exists
    /\ last' = Call(op, arg, "not a repository", <<>>)
    /\ UNCHANGED <<exists, staging, commits, branches>>

(* ---------------------------------------------------------------------- *)
(* add                                                                     *)
(* ---------------------------------------------------------------------- *)

\* mutant: the membership test is dropped
StageAlways(staged_files, file_path) == Append(staged_files, file_path)

\* staged_files after `if file_path not in staged_files: append`
Stage(staged_files, file_path) ==
    IF In(file_path, staged_files) THEN staged_files
    ELSE Append(staged_files, file_path)

kazi_add(file_path) ==
    \/ NotARepository("add", <<file_path>>)
    \/ /\ exists
       /\ file_path \notin ExistingFiles
       /\ last' = Call("add", <<file_path>>, "file does not exist", <<>>)
       /\ UNCHANGED <<exists, staging, commits, branches>>
    \/ /\ exists
       /\ file_path \in ExistingFiles
       /\ staging' = Stage(staging, file_path)
       /\ last' = Call("add", <<file_path>>,
                       IF In(file_path, staging) THEN "adding" ELSE "added",
                       <<>>)
       /\ UNCHANGED <<exists, commits, branches>>

(* ---------------------------------------------------------------------- *)
(* commit                                                                  *)
(* ---------------------------------------------------------------------- *)

\* mutant: the emptiness test never fires
NothingStagedNever(staged_files) == FALSE

\* `if not staged_files`
NothingStaged(staged_files) == staged_files = <<>>

\* mutant: the id is taken before counting the new record
CommitIdOffByOne(cs) == Len(cs)

\* commit_id = len(commits) + 1
CommitId(cs) == Len(cs) + 1

\* the commit record
Commit(commit_id, message, staged_files, timestamp) ==
    [id |-> commit_id, message |-> message,
     files |-> staged_files, timestamp |-> timestamp]

\* mutant: the log is rewritten with the new record alone
LogReplace(cs, commit) == <<commit>>

\* commits.append(commit)
LogAppend(cs, commit) == Append(cs, commit)

\* mutant: commits always go to main
ActiveBranchesMain(bs) == {"main"}

\* the names `next(branch for branch, data in branches.items()
\* if data['active'])` can yield: the active entries of the table
ActiveBranches(bs) == {n \in DOMAIN bs : bs[n].active}

\* mutant: the branch records the id of the commit after this one
AppendCommitNext(bs, active_branch, commit_id) ==
    [bs EXCEPT ![active_branch].commits = Append(@, commit_id + 1)]

\* branches[active_branch]['commits'].append(commit_id)
AppendCommit(bs, active_branch, commit_id) ==
    [bs EXCEPT ![active_branch].commits = Append(@, commit_id)]

\* mutant: the staging document is written back as it was read
ClearedStagingKept(staged_files) == staged_files

\* json.dump([], sf): the staging document after a commit
ClearedStaging(staged_files) == <<>>

kazi_commit(message) ==
    \/ NotARepository("commit", <<message>>)
    \/ /\ exists
       /\ NothingStaged(staging)
       /\ last' = Call("commit", <<message>>, "no files to commit", <<>>)
       /\ UNCHANGED <<exists, staging, commits, branches>>
    \/ /\ exists
       /\ ~NothingStaged(staging)
       /\ IF ActiveBranches(branches) = {}
          THEN \* next() raises StopIteration before any document is written
               /\ last' = Call("commit", <<message>>, "StopIteration", <<>>)
               /\ UNCHANGED <<staging, commits, branches>>
          ELSE \E timestamp \in Timestamps :
               \E active_branch \in ActiveBranches(branches) :
                  LET commit_id == CommitId(commits) IN
                  /\ commits' = LogAppend(commits,
                                  Commit(commit_id, message, staging,
                                         timestamp))
                  /\ branches' = AppendCommit(branches, active_branch,
                                              commit_id)
                  /\ staging' = ClearedStaging(staging)
                  /\ last' = Call("commit", <<message>>, "committed",
                                  <<commit_id>>)
       /\ UNCHANGED exists

(* ---------------------------------------------------------------------- *)
(* create-branch, checkout                                                 *)
(* ---------------------------------------------------------------------- *)

\* mutant: a new branch starts active
NewBranchActive == [commits |-> <<>>, active |-> TRUE]

\* a branch whose flag is set
NewBranchSet == [commits |-> <<>>, active |-> TRUE]

\* {'commits': [], 'active': False}
NewBranch == [commits |-> <<>>, active |-> FALSE]

\* branches[branch_name] = ... on a name that is not a key yet
Insert(bs, branch_name, branch) ==
    [n \in DOMAIN bs \cup {branch_name} |->
        IF n = branch_name THEN branch ELSE bs[n]]

kazi_create_branch(branch_name) ==
    \/ NotARepository("create-branch", <<branch_name>>)
    \/ /\ exists
       /\ branch_name \in DOMAIN branches
       /\ last' = Call("create-branch", <<branch_name>>, "already exists",
                       <<>>)
       /\ UNCHANGED <<exists, staging, commits, branches>>
    \/ /\ exists
       /\ branch_name \notin DOMAIN branches
       /\ branches' = Insert(branches, branch_name, NewBranch)
       /\ last' = Call("create-branch", <<branch_name>>, "created", <<>>)
       /\ UNCHANGED <<exists, staging, commits>>

\* mutant: the loop that clears every flag is missing
ActivateOnly(bs, branch_name) ==
    [bs EXCEPT ![branch_name].active = TRUE]

\* mutant: the branch checked out is written as a fresh entry
ActivateFresh(bs, branch_name) ==
    [n \in DOMAIN bs |->
        IF n = branch_name THEN [commits |-> <<>>, active |-> TRUE]
        ELSE [bs[n] EXCEPT !.active = FALSE]]

\* for branch in branches: active = False; branches[branch_name] = True
Activate(bs, branch_name) ==
    [n \in DOMAIN bs |-> [bs[n] EXCEPT !.active = (n = branch_name)]]

kazi_checkout(branch_name) ==
    \/ NotARepository("checkout", <<branch_name>>)
    \/ /\ exists
       /\ branch_name \notin DOMAIN branches
       /\ last' = Call("checkout", <<branch_name>>, "does not exist", <<>>)
       /\ UNCHANGED <<exists, staging, commits, branches>>
    \/ /\ exists
       /\ branch_name \in DOMAIN branches
       /\ branches' = Activate(branches, branch_name)
       /\ last' = Call("checkout", <<branch_name>>, "checked out", <<>>)
       /\ UNCHANGED <<exists, staging, commits>>

(* ---------------------------------------------------------------------- *)
(* merge                                                                   *)
(* ---------------------------------------------------------------------- *)

\* [commit for commit in source_commits if commit in target_commits]
Conflicts(source_commits, target_commits) ==
    SelectSeq(source_commits, LAMBDA c : In(c, target_commits))

\* the loop over the conflicts: 's' removes each one from source_commits,
\* 't' and any other answer leave the list alone
RECURSIVE Resolve(_, _, _)
Resolve(source_commits, conflicts, resolution) ==
    IF conflicts = <<>> THEN source_commits
    ELSE Resolve(IF resolution = "s"
                 THEN ListRemove(source_commits, Head(conflicts))
                 ELSE source_commits,
                 Tail(conflicts), resolution)

\* mutant: the `not in target_commits` filter is missing
ExtendAll(target_commits, source_commits) == target_commits \o source_commits

\* target.extend(commit for commit in source_commits
\*               if commit not in target_commits)
\* the generator is consumed while the target grows
RECURSIVE Extend(_, _)
Extend(target_commits, source_commits) ==
    IF source_commits = <<>> THEN target_commits
    ELSE Extend(IF In(Head(source_commits), target_commits)
                THEN target_commits
                ELSE Append(target_commits, Head(source_commits)),
                Tail(source_commits))

\* the branch table merge stores. source_commits and target_commits are
\* the lists inside the table, and one and the same list when the two
\* names are equal
Merged(bs, source_branch, target_branch, resolution) ==
    LET conflicts == Conflicts(bs[source_branch].commits,
                               bs[target_branch].commits)
        source_commits == Resolve(bs[source_branch].commits, conflicts,
                                  resolution)
        target_commits == IF source_branch = target_branch
                          THEN source_commits
                          ELSE bs[target_branch].commits
    IN  [n \in DOMAIN bs |->
           IF n = target_branch
           THEN [bs[n] EXCEPT
                   !.commits = Extend(target_commits, source_commits)]
           ELSE IF n = source_branch
           THEN [bs[n] EXCEPT !.commits = source_commits]
           ELSE bs[n]]

kazi_merge(source_branch, target_branch) ==
    \/ NotARepository("merge", <<source_branch, target_branch>>)
    \/ /\ exists
       /\ \/ source_branch \notin DOMAIN branches
          \/ target_branch \notin DOMAIN branches
       /\ last' = Call("merge", <<source_branch, target_branch>>,
                       "does not exist", <<>>)
       /\ UNCHANGED <<exists, staging, commits, branches>>
    \/ /\ exists
       /\ source_branch \in DOMAIN branches
       /\ target_branch \in DOMAIN branches
       /\ Conflicts(branches[source_branch].commits,
                    branches[target_branch].commits) = <<>>
       /\ branches' = Merged(branches, source_branch, target_branch, "")
       /\ last' = Call("merge", <<source_branch, target_branch>>,
                       "merged", <<>>)
       /\ UNCHANGED <<exists, staging, commits>>
    \/ /\ exists
       /\ source_branch \in DOMAIN branches
       /\ target_branch \in DOMAIN branches
       /\ Conflicts(branches[source_branch].commits,
                    branches[target_branch].commits) # <<>>
       \* the prompt is shown only when there are conflicts
       /\ \E resolution \in Resolutions :
             /\ branches' = Merged(branches, source_branch, target_branch,
                                   resolution)
             /\ last' = Call("merge", <<source_branch, target_branch>>,
                             "merged", <<resolution>>)
       /\ UNCHANGED <<exists, staging, commits>>

(* ---------------------------------------------------------------------- *)
(* diff                                                                    *)
(* ---------------------------------------------------------------------- *)

\* mutant: the difference is taken the wrong way round
OnlyInSwapped(commits1, commits2) == ToSet(commits2) \ ToSet(commits1)

\* set(commits1) - set(commits2)
OnlyIn(commits1, commits2) == ToSet(commits1) \ ToSet(commits2)

kazi_diff(branch1, branch2) ==
    \/ NotARepository("diff", <<branch1, branch2>>)
    \/ /\ exists
       /\ \/ branch1 \notin DOMAIN branches
          \/ branch2 \notin DOMAIN branches
       /\ last' = Call("diff", <<branch1, branch2>>, "does not exist", <<>>)
       /\ UNCHANGED <<exists, staging, commits, branches>>
    \/ /\ exists
       /\ branch1 \in DOMAIN branches
       /\ branch2 \in DOMAIN branches
       /\ last' = Call("diff", <<branch1, branch2>>, "diff",
                       <<OnlyIn(branches[branch1].commits,
                                branches[branch2].commits),
                         OnlyIn(branches[branch2].commits,
                                branches[branch1].commits)>>)
       /\ UNCHANGED <<exists, staging, commits, branches>>

(* ---------------------------------------------------------------------- *)
(* commit, one file access at a time                                       *)
(* ---------------------------------------------------------------------- *)

\* a process that runs no commit: nothing loaded, nothing written
IdleProc ==
    [pc |-> "idle", message |-> "", staged_files |-> <<>>,
     commits |-> <<>>, branches |-> [n \in {} |-> NewBranch],
     commit_id |-> 0, written |-> 0]

\* the positions of a commit between its first read and its last write
Running == {"load_commits", "load_branches", "write"}

\* no commit is between its first read and its last write
Quiet == \A p \in Procs : procs[p].pc \notin Running

\* mutant: the branch table is stored first and the staging set last
CommitWritesBranchesFirst == <<"branches", "commits", "staging">>

\* the order in which commit stores its three documents
CommitWrites == <<"staging", "commits", "branches">>

\* the existence test, then `staged_files = json.load(sf)`
commit_open(p, message) ==
    /\ procs[p].pc \notin Running
    /\ \/ /\ NotARepository("commit", <<message>>)
          /\ UNCHANGED procs
       \/ /\ exists
          /\ procs' = [procs EXCEPT ![p] =
                         [IdleProc EXCEPT !.pc = "load_commits",
                                          !.message = message,
                                          !.staged_files = staging]]
          /\ UNCHANGED <<exists, staging, commits, branches, last>>

\* `commits = json.load(cf)`
commit_load_commits(p) ==
    /\ procs[p].pc = "load_commits"
    /\ procs' = [procs EXCEPT ![p].pc = "load_branches",
                              ![p].commits = commits]
    /\ UNCHANGED <<exists, staging, commits, branches, last>>

\* `branches = json.load(bf)`, the emptiness test and the changes made in
\* memory before the first write
commit_load_branches(p) ==
    /\ procs[p].pc = "load_branches"
    /\ \/ /\ NothingStaged(procs[p].staged_files)
          /\ procs' = [procs EXCEPT ![p] = IdleProc]
          /\ last' = Call("commit", <<procs[p].message>>,
                          "no files to commit", <<>>)
       \/ /\ ~NothingStaged(procs[p].staged_files)
          /\ IF ActiveBranches(branches) = {}
             THEN \* next() raises StopIteration
                  /\ procs' = [procs EXCEPT ![p] = IdleProc]
                  /\ last' = Call("commit", <<procs[p].message>>,
                                  "StopIteration", <<>>)
             ELSE \E timestamp \in Timestamps :
                  \E active_branch \in ActiveBranches(branches) :
                     LET commit_id == CommitId(procs[p].commits) IN
                     /\ procs' = [procs EXCEPT
                           ![p].pc = "write",
                           ![p].commit_id = commit_id,
                           ![p].commits =
                              LogAppend(procs[p].commits,
                                        Commit(commit_id, procs[p].message,
                                               procs[p].staged_files,
                                               timestamp)),
                           ![p].branches =
                              AppendCommit(branches, active_branch,
                                           commit_id)]
                     /\ last' = last
    /\ UNCHANGED <<exists, staging, commits, branches>>

\* seek(0), json.dump, truncate on the next of the three files; the print
\* follows the third
commit_write(p) ==
    /\ procs[p].pc = "write"
    /\ LET document == CommitWrites[procs[p].written + 1]
           finished == procs[p].written + 1 = Len(CommitWrites)
       IN  /\ staging' = IF document = "staging"
                         THEN ClearedStaging(procs[p].staged_files)
                         ELSE staging
           /\ commits' = IF document = "commits"
                         THEN procs[p].commits ELSE commits
           /\ branches' = IF document = "branches"
                          THEN procs[p].branches ELSE branches
           \* a finished process keeps what it reports and the log it stored
           /\ procs' = [procs EXCEPT ![p] =
                 IF finished
                 THEN [IdleProc EXCEPT !.pc = "done",
                                       !.message = procs[p].message,
                                       !.commit_id = procs[p].commit_id,
                                       !.commits = procs[p].commits,
                                       !.written = procs[p].written + 1]
                 ELSE [procs[p] EXCEPT !.written = @ + 1]]
           /\ last' = IF finished
                      THEN Call("commit", <<procs[p].message>>, "committed",
                                <<procs[p].commit_id>>)
                      ELSE last
    /\ UNCHANGED exists

\* the process is killed between two file accesses; its memory is gone,
\* what is kept is the number of documents it had stored
commit_crash(p) ==
    /\ procs[p].pc \in Running
    /\ procs' = [procs EXCEPT ![p] =
                   [IdleProc EXCEPT !.pc = "crashed",
                                    !.written = procs[p].written]]
    /\ UNCHANGED <<exists, staging, commits, branches, last>>

(* ---------------------------------------------------------------------- *)
(* Specification                                                           *)
(* ---------------------------------------------------------------------- *)

\* before init the directory and its three documents do not exist
Init ==
    /\ exists = FALSE
    /\ staging = <<>>
    /\ commits = <<>>
    /\ branches = [n \in {} |-> NewBranch]
    /\ last = Call("new", <<>>, "", <<>>)
    /\ procs = [p \in Procs |-> IdleProc]

\* the log is not grown past MaxCommits records
CommitAllowed == NothingStaged(staging) \/ Len(commits) < MaxCommits

\* every operation, on a filesystem where only x.txt exists
Next ==
    \/ kazi_init /\ UNCHANGED procs
    \/ \E file_path \in OnePath : kazi_add(file_path) /\ UNCHANGED procs
    \/ \E message \in Messages :
          CommitAllowed /\ kazi_commit(message) /\ UNCHANGED procs
    \/ \E branch_name \in BranchNames :
          kazi_create_branch(branch_name) /\ UNCHANGED procs
    \/ \E branch_name \in BranchNames :
          kazi_checkout(branch_name) /\ UNCHANGED procs
    \/ \E source_branch, target_branch \in BranchNames :
          kazi_merge(source_branch, target_branch) /\ UNCHANGED procs
    \/ \E branch1, branch2 \in BranchNames :
          kazi_diff(branch1, branch2) /\ UNCHANGED procs

Spec == Init /\ [][Next]_vars

\* staging and committing with several paths, and switching branches
NextStaging ==
    \/ kazi_init /\ UNCHANGED procs
    \/ \E file_path \in Paths : kazi_add(file_path) /\ UNCHANGED procs
    \/ \E message \in Messages :
          CommitAllowed /\ kazi_commit(message) /\ UNCHANGED procs
    \/ \E branch_name \in BranchNames :
          kazi_create_branch(branch_name) /\ UNCHANGED procs
    \/ \E branch_name \in BranchNames :
          kazi_checkout(branch_name) /\ UNCHANGED procs

SpecStaging == Init /\ [][NextStaging]_vars

\* a repository directory as a command may find it: absent, or holding a
\* branch table whose flags were written by something else than the
\* operations, with no branch or several branches active
InitCorrupt ==
    /\ exists \in BOOLEAN
    /\ staging = <<>>
    /\ commits = <<>>
    /\ branches \in
          IF exists
          THEN {bs \in UNION {[names -> {NewBranch, NewBranchSet}] :
                                names \in {{"main"}, BranchNames}} :
                  Cardinality(ActiveBranches(bs)) # 1}
          ELSE {[n \in {} |-> NewBranch]}
    /\ last = Call("new", <<>>, "", <<>>)
    /\ procs = [p \in Procs |-> IdleProc]

SpecCorrupt == InitCorrupt /\ [][Next]_vars

\* the log is not grown past MaxCommits records by the commits under way
OpenAllowed ==
    \/ NothingStaged(staging)
    \/ Len(commits) + Cardinality({p \in Procs : procs[p].pc \in Running})
          < MaxCommits

\* one command after the other, where a commit may be killed on its way
NextCrash ==
    \/ Quiet /\ kazi_init /\ UNCHANGED procs
    \/ \E file_path \in OnePath :
          Quiet /\ kazi_add(file_path) /\ UNCHANGED procs
    \/ \E branch_name \in BranchNames :
          Quiet /\ kazi_create_branch(branch_name) /\ UNCHANGED procs
    \/ \E branch_name \in BranchNames :
          Quiet /\ kazi_checkout(branch_name) /\ UNCHANGED procs
    \/ \E p \in Procs, message \in Messages :
          Quiet /\ OpenAllowed /\ commit_open(p, message)
    \/ \E p \in Procs : commit_load_commits(p)
    \/ \E p \in Procs : commit_load_branches(p)
    \/ \E p \in Procs : commit_write(p)
    \/ \E p \in Procs : commit_crash(p)

SpecCrash == Init /\ [][NextCrash]_vars

\* no commit has been started step by step yet
NoneStarted == \A p \in Procs : procs[p].pc = "idle"

\* two commits of separate processes on one directory, nothing keeping
\* their file accesses apart, after commits that ran alone
NextRace ==
    \/ kazi_init /\ UNCHANGED procs
    \/ \E file_path \in OnePath : kazi_add(file_path) /\ UNCHANGED procs
    \/ \E message \in Messages :
          /\ NoneStarted
          /\ Len(commits) + Cardinality(Procs) < MaxCommits
          /\ kazi_commit(message)
          /\ UNCHANGED procs
    \/ \E p \in Procs, message \in RaceMessages :
          procs[p].pc = "idle" /\ commit_open(p, message)
    \/ \E p \in Procs : commit_load_commits(p)
    \/ \E p \in Procs : commit_load_branches(p)
    \/ \E p \in Procs : commit_write(p)

SpecRace == Init /\ [][NextRace]_vars

(* ---------------------------------------------------------------------- *)
(* Properties                                                              *)
(* ---------------------------------------------------------------------- *)

\* the names of the branches whose flag is set
ActiveNames == {n \in DOMAIN branches : branches[n].active = TRUE}

\* the ids a list of commit ids holds
Ids(lst) == {lst[i] : i \in DOMAIN lst}

\* no element occurs twice
NoDuplicates(lst) == \A i, j \in DOMAIN lst : lst[i] = lst[j] => i = j

\* the step is a call of `op` on an initialized repository
Called(op) == exists /\ last'.op = op

\* C1: once the repository is initialized, exactly one branch of the branch
\* table is active, whatever calls (successful or failing) were made
C1_ExactlyOneActive == exists => Cardinality(ActiveNames) = 1

C1_Witness ==
    /\ exists
    /\ DOMAIN branches = {"main"}
    /\ branches["main"].active
    /\ Len(commits) >= 1
    /\ last.op = "checkout"
    /\ last.arg = <<"feature">>
    /\ last.out = "does not exist"

\* C2: the k-th record of the commit log has id k, so the ids are 1..n in
\* creation order, strictly increasing and unique
C2_LogIdsAreOneToN == \A k \in DOMAIN commits : commits[k].id = k

C2_Witness ==
    /\ Len(commits) >= 2
    /\ last.out = "committed"
    /\ \E n \in DOMAIN branches : branches[n].commits = <<>>

\* C3: a commit called with a non-empty staging set appends exactly one
\* record to the log, the record has the next id and the staged paths in
\* staging order, and the staging set is empty afterwards
C3_CommitAppendsAndClears ==
    [][(Called("commit") /\ staging # <<>>) =>
          /\ Len(commits') = Len(commits) + 1
          /\ SubSeq(commits', 1, Len(commits)) = commits
          /\ commits'[Len(commits')].id = Len(commits) + 1
          /\ commits'[Len(commits')].files = staging
          /\ staging' = <<>>]_vars

C3_Witness ==
    /\ last.out = "committed"
    /\ Len(commits) = 2
    /\ commits[2].files = <<"y.txt", "x.txt">>
    /\ staging = <<>>

\* C4: a successful commit appends the new id to the end of the list of
\* the branch active at commit time; every other branch and every active
\* flag stay as they were
C4_CommitOnActiveBranchOnly ==
    [][(Called("commit") /\ last'.out = "committed") =>
          /\ DOMAIN branches' = DOMAIN branches
          /\ \A n \in DOMAIN branches :
                /\ branches'[n].active = branches[n].active
                /\ branches'[n].commits =
                      IF branches[n].active
                      THEN Append(branches[n].commits, last'.ret[1])
                      ELSE branches[n].commits]_vars

C4_Witness ==
    /\ last.out = "committed"
    /\ DOMAIN branches = {"main", "feature"}
    /\ branches["main"].commits = <<1>>
    /\ branches["feature"].commits = <<2>>
    /\ branches["feature"].active

\* C5: every id in a branch's list is the id of a record of the commit log
C5_NoDanglingReference ==
    \A n \in DOMAIN branches :
       Ids(branches[n].commits) \subseteq {commits[k].id : k \in DOMAIN commits}

C5_Witness ==
    /\ last.op = "merge"
    /\ last.out = "merged"
    /\ \E n \in DOMAIN branches : Len(branches[n].commits) = 3

\* C6: the staging set never holds a path twice, and adding a path that is
\* already staged leaves the staging set as it was
C6_StagingHasNoDuplicates ==
    /\ []NoDuplicates(staging)
    /\ [][(Called("add") /\ last'.arg[1] \in Ids(staging)) =>
             staging' = staging]_vars

C6_Witness ==
    /\ last.op = "add"
    /\ last.arg = <<"x.txt">>
    /\ last.out = "adding"
    /\ staging = <<"y.txt", "x.txt">>
    /\ Len(commits) >= 1

\* C7: merging a branch into another one leaves the target with its
\* previous list followed by the ids of the source's previous list that the
\* target did not have, in source order and without duplicates, whatever
\* the answer at the prompt
C7_MergeExtendsTarget ==
    [][(Called("merge") /\ last'.out = "merged"
          /\ last'.arg[1] # last'.arg[2]) =>
          LET source == branches[last'.arg[1]].commits
              target == branches[last'.arg[2]].commits
              added  == SelectSeq(source, LAMBDA c : c \notin Ids(target))
          IN  /\ branches'[last'.arg[2]].commits = target \o added
              /\ NoDuplicates(added)]_vars

C7_Witness ==
    /\ last.op = "merge"
    /\ last.arg = <<"feature", "main">>
    /\ last.ret = <<"s">>
    /\ branches["main"].commits = <<1, 2, 3>>
    /\ branches["feature"].commits = <<2, 3>>

\* C8: a merge repeated with the same source and target, with nothing in
\* between, leaves the target's list as the first merge left it, whatever
\* was answered at either prompt
C8_MergeIdempotent ==
    [][(Called("merge") /\ last'.out = "merged"
          /\ last.op = "merge" /\ last.out = "merged"
          /\ last'.arg = last.arg) =>
          branches'[last'.arg[2]].commits = branches[last'.arg[2]].commits]_vars

\* C9: diff reports the ids only the first branch has and the ids only the
\* second has; the two sets are disjoint, with the common ids they make up
\* all ids of the two branches, and no document is modified
C9_DiffSets ==
    [][(Called("diff") /\ last'.out = "diff") =>
          LET A == Ids(branches[last'.arg[1]].commits)
              B == Ids(branches[last'.arg[2]].commits)
              onlyA == last'.ret[1]
              onlyB == last'.ret[2]
          IN  /\ onlyA = {c \in A : c \notin B}
              /\ onlyB = {c \in B : c \notin A}
              /\ onlyA \cap onlyB = {}
              /\ onlyA \cup onlyB \cup (A \cap B) = A \cup B
              /\ UNCHANGED <<staging, commits, branches>>]_vars

C9_Witness ==
    /\ last.op = "diff"
    /\ last.arg = <<"main", "feature">>
    /\ last.ret = <<{1}, {2, 3}>>

\* C10: a commit called with an empty staging set reports that there is
\* nothing to commit and leaves log, branch table and staging set alone
C10_EmptyCommitChangesNothing ==
    [][(Called("commit") /\ staging = <<>>) =>
          /\ last'.out = "no files to commit"
          /\ UNCHANGED <<staging, commits, branches>>]_vars

C10_Witness ==
    /\ last.op = "commit"
    /\ last.out = "no files to commit"
    /\ Len(commits) >= 1
    /\ Cardinality(DOMAIN branches) = 2

\* lst is the beginning of longer
IsPrefix(lst, longer) ==
    /\ Len(lst) <= Len(longer)
    /\ \A i \in DOMAIN lst : longer[i] = lst[i]

\* C11: a successful checkout changes active flags only: staging set,
\* commit log and every branch's list of ids are as before, and the branch
\* named is the active one
C11_CheckoutChangesFlagsOnly ==
    [][(Called("checkout") /\ last'.out = "checked out") =>
          /\ staging' = staging
          /\ commits' = commits
          /\ DOMAIN branches' = DOMAIN branches
          /\ \A n \in DOMAIN branches :
                /\ branches'[n].commits = branches[n].commits
                /\ branches'[n].active = (n = last'.arg[1])]_vars

C11_Witness ==
    /\ last.op = "checkout"
    /\ last.arg = <<"feature">>
    /\ last.out = "checked out"
    /\ staging = <<"x.txt">>
    /\ branches["main"].commits = <<1>>
    /\ branches["feature"].commits = <<2>>

\* C14: every operation leaves every existing branch with a list of ids
\* that starts with the list the branch had before
C14_BranchListsAppendOnly ==
    [][exists =>
          \A n \in DOMAIN branches :
             /\ n \in DOMAIN branches'
             /\ IsPrefix(branches[n].commits, branches'[n].commits)]_vars

\* C15: every step leaves the commit log starting with the log as it was,
\* and only a successful commit changes it
C15_LogAppendOnly ==
    [][/\ IsPrefix(commits, commits')
       /\ commits' # commits =>
             (last'.op = "commit" /\ last'.out = "committed")]_vars

C15_Witness ==
    /\ Len(commits) = 3
    /\ last.op = "commit"
    /\ last.out = "committed"
    /\ branches["main"].commits = <<>>

\* C16: create-branch on a name of the table reports that it exists and
\* leaves the table as it was; on a new name it adds an inactive branch
\* without commits; the other branches, the staging set and the log stay
C16_CreateBranch ==
    [][Called("create-branch") =>
          /\ staging' = staging
          /\ commits' = commits
          /\ IF last'.arg[1] \in DOMAIN branches
             THEN /\ last'.out = "already exists"
                  /\ branches' = branches
             ELSE /\ last'.out = "created"
                  /\ DOMAIN branches' = DOMAIN branches \cup {last'.arg[1]}
                  /\ branches'[last'.arg[1]].commits = <<>>
                  /\ branches'[last'.arg[1]].active = FALSE
                  /\ \A n \in DOMAIN branches :
                        branches'[n] = branches[n]]_vars

C16_Witness ==
    /\ last.op = "create-branch"
    /\ last.arg = <<"feature">>
    /\ last.out = "already exists"
    /\ branches["feature"].active
    /\ branches["feature"].commits = <<1, 2>>

\* C18: merging a branch into itself leaves the branch table as it was,
\* whatever is answered at the prompt
C18_SelfMergeIsNoOp ==
    [][(Called("merge") /\ last'.out = "merged"
          /\ last'.arg[1] = last'.arg[2]) =>
          branches' = branches]_vars

\* C20: no branch's list holds the same commit id twice
C20_NoDuplicateIds ==
    \A n \in DOMAIN branches : NoDuplicates(branches[n].commits)

C20_Witness ==
    /\ last.op = "merge"
    /\ last.arg = <<"main", "feature">>
    /\ last.ret = <<"t">>
    /\ branches["main"].commits = <<1, 3, 2>>
    /\ branches["feature"].commits = <<2, 1, 3>>

\* lst without its last element
Base(lst) == SubSeq(lst, 1, Len(lst) - 1)

\* C12: a commit with staged paths on a branch table with no active branch
\* or with several fails and stores nothing. The code has no typed errors:
\* any report other than success counts as the failure
C12_CommitRefusesCorruptTable ==
    [][(Called("commit") /\ staging # <<>>
          /\ Cardinality(ActiveNames) # 1) =>
          /\ last'.out # "committed"
          /\ UNCHANGED <<staging, commits, branches>>]_vars

\* a commit was killed after storing one or two of its three documents
Torn ==
    \E p \in Procs : procs[p].pc = "crashed" /\ procs[p].written \in {1, 2}

\* C13: after a commit killed between its document writes, the operation
\* that next reads a document reports a corrupt repository
C13_TornStateIsReported ==
    [][(Torn /\ exists /\ last' # last /\ last'.op # "init") =>
          last'.out = "corrupt repository"]_vars

\* C17: when two commits have loaded the same log, each before the other
\* stored it, both get the same id, the next after the log they loaded;
\* once both have reported success the log holds that log and one record
\* more, the one stored last, and the other record is lost
C17_LostUpdate ==
    [][\A p, q \in Procs :
          (/\ p # q
           /\ procs[p].pc = "write" /\ procs'[p].pc = "done"
           /\ procs[q].pc = "done"
           /\ Base(procs[p].commits) = Base(procs[q].commits)) =>
             /\ procs[p].commit_id = Len(Base(procs[p].commits)) + 1
             /\ procs[q].commit_id = procs[p].commit_id
             /\ last'.out = "committed"
             /\ Len(commits') = Len(Base(procs[p].commits)) + 1
             /\ commits' \in {procs[p].commits, procs[q].commits}]_vars

C17_Witness ==
    /\ procs[1].pc = "done"
    /\ procs[2].pc = "done"
    /\ procs[1].commit_id = 2
    /\ procs[2].commit_id = 2
    /\ procs[1].message # procs[2].message
    /\ Len(commits) = 2
    /\ commits[2].message = procs[1].message
    /\ last.arg = <<procs[2].message>>
    /\ last.out = "committed"

\* C19: whenever a commit is killed, the documents on disk have log ids
\* 1..n and no branch id missing from the log; against what the commit had
\* loaded, the staging set is emptied once one document was stored, the log
\* holds the new record once two were, and no branch refers to it; commits
\* that follow get the next id
C19_CrashDamage ==
    /\ [](/\ \A k \in DOMAIN commits : commits[k].id = k
          /\ \A n \in DOMAIN branches :
                Ids(branches[n].commits) \subseteq DOMAIN commits)
    /\ [][\A p \in Procs :
             (procs[p].pc = "write" /\ procs'[p].pc = "crashed") =>
                /\ staging = IF procs[p].written >= 1 THEN <<>>
                             ELSE procs[p].staged_files
                /\ commits = IF procs[p].written >= 2 THEN procs[p].commits
                             ELSE Base(procs[p].commits)
                /\ DOMAIN branches = DOMAIN procs[p].branches
                /\ \A n \in DOMAIN branches :
                      /\ branches[n].active = procs[p].branches[n].active
                      /\ branches[n].commits =
                            IF branches[n].active
                            THEN Base(procs[p].branches[n].commits)
                            ELSE procs[p].branches[n].commits
                      /\ procs[p].commit_id \notin Ids(branches[n].commits)
            ]_vars

C19_Witness ==
    /\ procs[1].pc = "crashed"
    /\ procs[1].written = 2
    /\ procs[2].pc = "done"
    /\ procs[2].commit_id = 2
    /\ Len(commits) = 2
    /\ branches["main"].commits = <<2>>
    /\ staging = <<>>
====
